---- MODULE Spec2Model ----
(***************************************************************************)
(* Model of the charging-station ETL pipeline: the Extractor's retry loop  *)
(* (extract.py), the Transformer and Aggregator (transform.py), the        *)
(* Validator's effect on the rowsets (data_validation.py), the Persister   *)
(* (load.py, save_to_csv) and the two scheduler loops (main.py,            *)
(* continuous.py).                                                         *)
(*                                                                         *)
(* Values are modelled as typed cells, because pandas compares values      *)
(* type-sensitively while a CSV file holds only their text: to_csv keeps   *)
(* the text and drops the type, read_csv infers a type per column.         *)
(***************************************************************************)
EXTENDS Integers, Sequences, FiniteSets, TLC

VARIABLES
    disk,          \* the three persisted tables: file name -> file content
    call,          \* the last call of save_to_csv: arguments, file before/after, outcome
    mode,          \* which entry point runs: "persist", "main", "continuous"
    pc,            \* position of the running entry point
    now,           \* datetime.now(), in ticks
    cycle,         \* the current loop iteration: start time, number, steps done so far
    ext,           \* extract_charging_stations: attempt, requests, sleeps, outcomes, result
    stations_data, \* what extract_charging_stations returned to the pipeline
    dfs,           \* stations_df, utilization_df, hourly_df and is_valid of the invocation
    stats,         \* the counters of the scheduler loop
    prev           \* the tables as they were when the current invocation started

vars == <<disk, call, mode, pc, now, cycle, ext, stations_data, dfs, stats, prev>>

\* ------------------------------------------------------------------ bounds

\* Largest integer that occurs as an id or a count in a rowset.
MaxNum == 3
\* Most rows a table may hold before the direct calls of save_to_csv stop.
MaxRows == 3
\* Longest incoming rowset of a direct call of save_to_csv.
MaxIncoming == 2
\* duration_hours, interval_minutes and retry_delay in ticks of the clock,
\* and the ticks that make one clock hour. A request and the steps of an
\* invocation take less than a tick; the clock advances in the sleeps.
DurationTicks == 5
IntervalTicks == 1
RetryDelayTicks == 1
TicksPerHour == 2
\* The pipeline invocations one run of a scheduler loop may start.
MaxCycles == 2

\* max_retries, the default of extract_charging_stations
MaxRetries == 3

\* Every instant the clock can show: a cycle that starts just before the end
\* time may still run a whole extraction.
Times == 0..(DurationTicks + (MaxRetries + 1) * RetryDelayTicks)

\* ------------------------------------------------------------------ cells

\* A Python value as pandas sees it: its type and its text.
IntCell(n) == [ty |-> "int", tx |-> ToString(n)]
StrCell(s) == [ty |-> "str", tx |-> s]
\* A datetime64 value of instant t; to_csv prints it with a space, not a 'T'.
DatetimeText(t) == "D" \o ToString(t)
DatetimeCell(t) == [ty |-> "datetime", tx |-> DatetimeText(t)]
\* datetime.isoformat(): a string.
IsoText(t) == "T" \o ToString(t)
isoformat(t) == StrCell(IsoText(t))

\* None / NaN: a missing value; to_csv prints it as the empty text.
NaCell == [ty |-> "na", tx |-> ""]
isna(c) == c.ty = "na"

\* The texts read_csv parses as integers.
NumericText == {ToString(n) : n \in 0..MaxNum}

\* ------------------------------------------------------------- data frames

\* A DataFrame is a sequence of rows, a row a function from column to cell.
EmptyDF == << >>
Columns(df) == IF df = << >> THEN {} ELSE DOMAIN df[1]

\* File names as the words `in filename.lower()` can find in them.
StationsFile == <<"charging", "stations">>
UtilizationFile == <<"utilization", "data">>
HourlyFile == <<"hourly", "utilization">>
FileNames == {StationsFile, UtilizationFile, HourlyFile}

\* "word" in filename.lower()
NameHas(filename, word) == \E i \in 1..Len(filename) : filename[i] = word

\* File contents: no file, an unreadable file, or CSV text rows.
Absent == [kind |-> "absent", rows |-> << >>]
Corrupt == [kind |-> "corrupt", rows |-> << >>]
Csv(rows) == [kind |-> "csv", rows |-> rows]

\* df.to_csv(file_path, index=False): every cell becomes its text.
to_csv(df) ==
    Csv([i \in 1..Len(df) |-> [c \in DOMAIN df[i] |-> df[i][c].tx]])

\* pd.read_csv(file_path): a column whose texts are all integers is read as
\* integers, any other column as strings (no parse_dates); an empty text is
\* a missing value. (A numeric column with missing values, which pandas reads
\* as floats, does not occur in the rowsets enumerated here.)
ColumnIsInt(rows, c) == \A i \in 1..Len(rows) : rows[i][c] \in NumericText
read_csv(file) ==
    [i \in 1..Len(file.rows) |->
        [c \in DOMAIN file.rows[i] |->
            IF file.rows[i][c] = "" THEN NaCell
            ELSE [ty |-> IF ColumnIsInt(file.rows, c) THEN "int" ELSE "str",
                  tx |-> file.rows[i][c]]]]

\* pd.concat([existing_df, df], ignore_index=True)
concat(existing_df, df) == existing_df \o df

RECURSIVE SelectRows(_, _, _)
SelectRows(df, keep, i) ==
    IF i > Len(df) THEN << >>
    ELSE (IF keep[i] THEN <<df[i]>> ELSE << >>) \o SelectRows(df, keep, i + 1)

KeyOf(row, subset) == [c \in subset |-> row[c]]

\* df.drop_duplicates(subset=subset, keep="last"): a row stays when no later
\* row has the same key, compared as pandas compares (type and value).
drop_duplicates(df, subset) ==
    SelectRows(df,
        [i \in 1..Len(df) |->
            ~ \E j \in (i + 1)..Len(df) : KeyOf(df[j], subset) = KeyOf(df[i], subset)],
        1)

\* ------------------------------------------------------------- persister

\* The if/elif chain of save_to_csv that picks the key by file name; a key
\* whose columns are missing from the frame is not applied.
DedupSubset(filename, combined_df) ==
    IF NameHas(filename, "stations")
    THEN (IF {"id"} \subseteq Columns(combined_df) THEN {"id"} ELSE {})
    ELSE IF NameHas(filename, "utilization")
    THEN (IF {"timestamp", "connector_id"} \subseteq Columns(combined_df)
          THEN {"timestamp", "connector_id"} ELSE {})
    ELSE IF NameHas(filename, "hourly")
    THEN (IF {"hourly_timestamp", "station_id"} \subseteq Columns(combined_df)
          THEN {"hourly_timestamp", "station_id"} ELSE {})
    ELSE {}

\* The merge branch: read, concatenate, drop duplicates, write.
MergeCsv(df, filename, old) ==
    LET combined_df == concat(read_csv(old), df)
        subset == DedupSubset(filename, combined_df)
    IN  to_csv(IF subset = {} THEN combined_df ELSE drop_duplicates(combined_df, subset))

\* A variant of save_to_csv without the try statement around the merge: the
\* exception of pd.read_csv reaches the caller and the file stays as it was.
save_to_csv_unguarded(df, filename, append, old) ==
    IF df = EmptyDF
    THEN [file |-> old, ret |-> "None", branch |-> "empty"]
    ELSE IF append /\ old.kind # "absent"
    THEN IF old.kind = "csv"
         THEN [file |-> MergeCsv(df, filename, old), ret |-> "path", branch |-> "merge"]
         ELSE [file |-> old, ret |-> "raised", branch |-> "raised"]
    ELSE [file |-> to_csv(df), ret |-> "path", branch |-> "write"]

\* save_to_csv(df, filename, output_dir, append) on a file whose content is
\* old: the file afterwards, the value returned and the branch taken.
save_to_csv(df, filename, append, old) ==
    IF df = EmptyDF
    THEN [file |-> old, ret |-> "None", branch |-> "empty"]
    ELSE IF append /\ old.kind # "absent"
    THEN IF old.kind = "csv"
         THEN [file |-> MergeCsv(df, filename, old), ret |-> "path", branch |-> "merge"]
         ELSE [file |-> to_csv(df), ret |-> "path", branch |-> "fallback"]
    ELSE [file |-> to_csv(df), ret |-> "path", branch |-> "write"]

\* --------------------------------------------------------------- raw data

\* A JSON object is a function from its field names to values; leaf values
\* are cells. A list element that is not an object (a string) is NonDict.
NonDict == [nondict |-> TRUE]
IsDict(x) == "nondict" \notin DOMAIN x

\* dict.get(key) with None as the default
Get(d, key) == IF key \in DOMAIN d THEN d[key] ELSE NaCell

\* str.upper() on the status words that occur
Upper(s) ==
    CASE s = "Available" -> "AVAILABLE"
      [] s = "available" -> "AVAILABLE"
      [] s = "Occupied" -> "OCCUPIED"
      [] s = "occupied" -> "OCCUPIED"
      [] s = "unavailable" -> "UNAVAILABLE"
      [] s = "out_of_order" -> "OUT_OF_ORDER"
      [] s = "planned" -> "PLANNED"
      [] s = "under_construction" -> "UNDER_CONSTRUCTION"
      [] s = "OutOfOrder" -> "OUTOFORDER"
      [] s = "Planned" -> "PLANNED"
      [] s = "closed" -> "CLOSED"
      [] s = "faulted" -> "FAULTED"
      [] OTHER -> s

\* What extract_charging_stations hands to its caller: None or a list.
NoData == [isNone |-> TRUE, list |-> << >>]
Data(list) == [isNone |-> FALSE, list |-> list]
\* `not stations_data`: None and the empty list are both falsy.
Falsy(sd) == sd.isNone \/ sd.list = << >>

\* connector["type"] = conn_type
WithType(connector, conn_type) ==
    [f \in DOMAIN connector \cup {"type"} |->
        IF f = "type" THEN StrCell(conn_type) ELSE connector[f]]

\* The nested loops over connectionTypes.items(): groups is the sequence of
\* <<type, list of connectors>> pairs in the dict's order.
RECURSIVE Flatten(_)
Flatten(groups) ==
    IF groups = << >> THEN << >>
    ELSE [i \in 1..Len(groups[1][2]) |-> WithType(groups[1][2][i], groups[1][1])]
         \o Flatten(Tail(groups))

\* ---------------------------------------------------------------- extractor

\* extract.py: the per-station normalisation of a successful response.
\* A station that is not an object passes through unchanged when it is a
\* string (`"connectionsTypes" in station` is a substring test).
NormalizeStation(station) ==
    IF ~IsDict(station) THEN station
    ELSE LET renamed ==
                 IF "connectionsTypes" \in DOMAIN station
                    /\ "connectionTypes" \notin DOMAIN station
                 THEN [f \in (DOMAIN station \ {"connectionsTypes"}) \cup {"connectionTypes"} |->
                          IF f = "connectionTypes" THEN station["connectionsTypes"]
                          ELSE station[f]]
                 ELSE station
         IN  IF "connectionTypes" \in DOMAIN renamed
             THEN [f \in DOMAIN renamed \cup {"connectors"} |->
                      IF f = "connectors" THEN Flatten(renamed["connectionTypes"])
                      ELSE IF f = "connectionTypes"
                           THEN [g \in 1..Len(renamed[f]) |->
                                    <<renamed[f][g][1],
                                      [i \in 1..Len(renamed[f][g][2]) |->
                                          WithType(renamed[f][g][2][i], renamed[f][g][1])]>>]
                           ELSE renamed[f]]
             ELSE renamed

ProcessStations(stations_list) ==
    [i \in 1..Len(stations_list) |-> NormalizeStation(stations_list[i])]

\* Variants of the loop body below: one gives up an attempt early (the loop
\* ranging over max_retries attempts), one sleeps and retries after the last
\* allowed attempt as well.
HandleResponseShort(r, attempt, max_retries) ==
    CASE r.kind = "error" \/ (r.kind = "notjson" /\ r.raises = "RequestException") ->
            IF attempt < max_retries - 1
            THEN [next |-> "retry", result |-> NoData, why |-> "request"]
            ELSE [next |-> "return", result |-> NoData, why |-> "network"]
      [] r.kind = "notjson" -> [next |-> "return", result |-> NoData, why |-> "json"]
      [] r.kind = "other" -> [next |-> "return", result |-> NoData, why |-> "schema"]
      [] OTHER -> [next |-> "return", result |-> Data(ProcessStations(r.stations)),
                   why |-> "ok"]
HandleResponseLong(r, attempt, max_retries) ==
    CASE r.kind = "error" \/ (r.kind = "notjson" /\ r.raises = "RequestException") ->
            IF attempt <= max_retries
            THEN [next |-> "retry", result |-> NoData, why |-> "request"]
            ELSE [next |-> "return", result |-> NoData, why |-> "network"]
      [] r.kind = "notjson" -> [next |-> "return", result |-> NoData, why |-> "json"]
      [] r.kind = "other" -> [next |-> "return", result |-> NoData, why |-> "schema"]
      [] OTHER -> [next |-> "return", result |-> Data(ProcessStations(r.stations)),
                   why |-> "ok"]

\* One response of the upstream API, as the code tells them apart:
\*   error      requests raised (timeout, connection error, non-2xx status)
\*   notjson    response.json() raised; the exception is a plain ValueError
\*              or, with a requests library whose JSONDecodeError derives
\*              from RequestException, one that the first except clause takes
\*   object     a dict with a "chargingStations" key
\*   list       a bare list
\*   other      any other JSON value
\* HandleResponse is what one pass of the loop body does with it: "retry"
\* (sleep and loop), or return with the given result.
HandleResponse(r, attempt, max_retries) ==
    CASE r.kind = "error" \/ (r.kind = "notjson" /\ r.raises = "RequestException") ->
            IF attempt < max_retries
            THEN [next |-> "retry", result |-> NoData, why |-> "request"]
            ELSE [next |-> "return", result |-> NoData, why |-> "network"]
      [] r.kind = "notjson" -> [next |-> "return", result |-> NoData, why |-> "json"]
      [] r.kind = "other" -> [next |-> "return", result |-> NoData, why |-> "schema"]
      [] OTHER -> [next |-> "return", result |-> Data(ProcessStations(r.stations)),
                   why |-> "ok"]

\* -------------------------------------------------------------- transformer

\* The integer a cell of type int holds.
NumOf(c) == CHOOSE n \in (-1)..MaxNum : ToString(n) = c.tx

\* `if x and isinstance(x, str)`
TruthyStr(c) == c.ty = "str" /\ c.tx # ""

\* lines 30-43 and 172-184 of transform.py: the connector list of a station
connectors_list(station) ==
    IF "connectors" \in DOMAIN station /\ station["connectors"] # << >>
    THEN station["connectors"]
    ELSE IF "connectionTypes" \in DOMAIN station
    THEN Flatten(station["connectionTypes"])
    ELSE IF "connectionsTypes" \in DOMAIN station
    THEN Flatten(station["connectionsTypes"])
    ELSE << >>

\* connector.get('status', '').upper() raises on a status that is no string,
\* connector.get raises on a connector that is no object.
StationConnectorRaises(connector) ==
    \/ ~IsDict(connector)
    \/ ("status" \in DOMAIN connector /\ connector["status"].ty # "str")

\* A variant that always counts the resolved connectors and ignores the
\* upstream totalConnectors.
total_connectors_counted(station, conns) == Len(conns)

\* total_connectors after the loop over the connectors
total_connectors(station, conns) ==
    LET given == IF "totalConnectors" \in DOMAIN station
                    /\ station["totalConnectors"].ty = "int"
                 THEN NumOf(station["totalConnectors"]) ELSE 0
    IN  IF given # 0 THEN given ELSE Len(conns)

available_connectors(conns) ==
    Cardinality({i \in 1..Len(conns) :
        "status" \in DOMAIN conns[i] /\ Upper(conns[i]["status"].tx) = "AVAILABLE"})

\* A variant of the mapping below that looks the status up as it is spelled,
\* without upper-casing it.
StationStatusMappingExact(c) ==
    CASE c.tx = "AVAILABLE" -> StrCell("Available")
      [] c.tx = "OCCUPIED" -> StrCell("Occupied")
      [] c.tx = "UNAVAILABLE" -> StrCell("OutOfOrder")
      [] c.tx = "OUT_OF_ORDER" -> StrCell("OutOfOrder")
      [] c.tx = "PLANNED" -> StrCell("Planned")
      [] c.tx = "UNDER_CONSTRUCTION" -> StrCell("UnderConstruction")
      [] OTHER -> c

\* status_mapping.get(status.upper(), status) of transform_stations_data
StationStatusMapping(c) ==
    LET u == Upper(c.tx)
    IN  CASE u = "AVAILABLE" -> StrCell("Available")
          [] u = "OCCUPIED" -> StrCell("Occupied")
          [] u = "UNAVAILABLE" -> StrCell("OutOfOrder")
          [] u = "OUT_OF_ORDER" -> StrCell("OutOfOrder")
          [] u = "PLANNED" -> StrCell("Planned")
          [] u = "UNDER_CONSTRUCTION" -> StrCell("UnderConstruction")
          [] OTHER -> c

\* connector_counts after the loop over the connectors (lines 50-55): the
\* count under one of its four named keys, and the count under 'Other'.
NamedTypes == {"CCS", "CHAdeMO", "Type2", "AC Type 2"}
connector_counts(conns, key) ==
    Cardinality({i \in 1..Len(conns) : Get(conns[i], "type") = StrCell(key)})
other_count(conns) ==
    Cardinality({i \in 1..Len(conns) :
        ~ \E key \in NamedTypes : Get(conns[i], "type") = StrCell(key)})
\* Line 65 adds the 'AC Type 2' count to connector_counts['Type2'].
type2_folded(conns) == connector_counts(conns, "Type2") + connector_counts(conns, "AC Type 2")
\* Line 118: 'type2_connectors' is the folded count plus the 'AC Type 2' count.
type2_connectors(conns) == type2_folded(conns) + connector_counts(conns, "AC Type 2")

\* A variant of the derivation below in which the station's own status,
\* when it says out of order, planned or under construction, comes before
\* the connectors.
DeriveStatusOwnFirst(station, total, available) ==
    LET status == Get(station, "status")
        u == Upper(status.tx)
    IN  IF total = 0
        THEN (IF TruthyStr(status) THEN StationStatusMapping(status) ELSE status)
        ELSE IF TruthyStr(status) /\ u \in {"UNAVAILABLE", "OUT_OF_ORDER"}
        THEN StrCell("OutOfOrder")
        ELSE IF TruthyStr(status) /\ u = "PLANNED" THEN StrCell("Planned")
        ELSE IF TruthyStr(status) /\ u = "UNDER_CONSTRUCTION" THEN StrCell("UnderConstruction")
        ELSE IF available > 0 THEN StrCell("Available")
        ELSE StrCell("Occupied")

\* lines 73-103: the derived status of a station
DeriveStatus(station, total, available) ==
    IF total = 0
    THEN LET status == Get(station, "status")
         IN  IF TruthyStr(status) THEN StationStatusMapping(status) ELSE status
    ELSE IF available > 0 THEN StrCell("Available")
    ELSE IF available = 0 /\ total > 0 THEN StrCell("Occupied")
    ELSE LET original == IF "status" \in DOMAIN station THEN station["status"]
                         ELSE StrCell("")
             u == Upper(original.tx)
         IN  IF original.ty = "str" /\ u \in {"UNAVAILABLE", "OUT_OF_ORDER"}
             THEN StrCell("OutOfOrder")
             ELSE IF original.ty = "str" /\ u = "PLANNED" THEN StrCell("Planned")
             ELSE IF original.ty = "str" /\ u = "UNDER_CONSTRUCTION"
             THEN StrCell("UnderConstruction")
             ELSE StrCell("Occupied")

\* The body of the loop of transform_stations_data for one station: whether
\* it raised (the station is then skipped) and the record it appends.
StationRecord(station) ==
    LET conns == connectors_list(station)
        raised == \E i \in 1..Len(conns) : StationConnectorRaises(conns[i])
        total == total_connectors(station, conns)
    IN  IF raised THEN [raised |-> TRUE, row |-> << >>]
        ELSE [raised |-> FALSE,
              row |-> [id |-> Get(station, "id"),
                       status |-> DeriveStatus(station, total, available_connectors(conns)),
                       total_connectors |-> IntCell(total),
                       ccs_connectors |-> IntCell(connector_counts(conns, "CCS")),
                       chademo_connectors |-> IntCell(connector_counts(conns, "CHAdeMO")),
                       type2_connectors |-> IntCell(type2_connectors(conns)),
                       other_connectors |-> IntCell(other_count(conns))]]

\* stations_df['status'].fillna('Unknown', inplace=True)
fillna_status(df) ==
    [i \in 1..Len(df) |->
        [df[i] EXCEPT !["status"] = IF isna(@) THEN StrCell("Unknown") ELSE @]]

RECURSIVE StationRecords(_)
StationRecords(list) ==
    IF list = << >> THEN << >>
    ELSE LET r == StationRecord(list[1])
         IN  (IF r.raised THEN << >> ELSE <<r.row>>) \o StationRecords(Tail(list))

\* transform_stations_data(stations_data). A list element that is no object
\* raises inside the loop body and again inside the except handler
\* (station.get in the log message), so the call itself raises.
transform_stations_data(sd) ==
    IF Falsy(sd) THEN [raised |-> FALSE, df |-> EmptyDF]
    ELSE IF \E i \in 1..Len(sd.list) : ~IsDict(sd.list[i])
    THEN [raised |-> TRUE, df |-> EmptyDF]
    ELSE [raised |-> FALSE, df |-> fillna_status(StationRecords(sd.list))]

\* A variant without the truncation to the hour.
HourOfUntruncated(t) == t

\* timestamp.replace(minute=0, second=0, microsecond=0)
HourOf(t) == t - (t % TicksPerHour)

\* A variant of the mapping below without the entry for UNAVAILABLE.
ConnectorStatusMappingPartial(c) ==
    LET u == Upper(c.tx)
    IN  CASE u = "AVAILABLE" -> StrCell("Available")
          [] u = "OCCUPIED" -> StrCell("Occupied")
          [] u = "OUT_OF_ORDER" -> StrCell("OutOfOrder")
          [] OTHER -> c

\* status_mapping.get(...) of transform_utilization_data
ConnectorStatusMapping(c) ==
    LET u == Upper(c.tx)
    IN  CASE u = "AVAILABLE" -> StrCell("Available")
          [] u = "OCCUPIED" -> StrCell("Occupied")
          [] u = "UNAVAILABLE" -> StrCell("OutOfOrder")
          [] u = "OUT_OF_ORDER" -> StrCell("OutOfOrder")
          [] OTHER -> c

Flag(b) == IF b THEN IntCell(1) ELSE IntCell(0)

\* The record appended for one connector (lines 186-218).
UtilizationRecord(station, connector, t) ==
    LET raw == Get(connector, "status")
        connector_status == IF TruthyStr(raw) THEN ConnectorStatusMapping(raw) ELSE raw
    IN  [timestamp |-> isoformat(t),
         hourly_timestamp |-> isoformat(HourOf(t)),
         station_id |-> Get(station, "id"),
         connector_id |-> Get(connector, "id"),
         connector_type |-> Get(connector, "type"),
         status |-> connector_status,
         is_occupied |-> Flag(connector_status = StrCell("Occupied")),
         is_available |-> Flag(connector_status = StrCell("Available")),
         is_out_of_order |-> Flag(connector_status \in
                                    {StrCell("OutOfOrder"), StrCell("UNAVAILABLE")})]

\* The records one station contributes: those of its connectors up to the
\* first one that raises (records already appended stay in the list).
RECURSIVE ConnectorRecords(_, _, _)
ConnectorRecords(station, conns, t) ==
    IF conns = << >> \/ ~IsDict(conns[1]) THEN << >>
    ELSE <<UtilizationRecord(station, conns[1], t)>>
         \o ConnectorRecords(station, Tail(conns), t)

RECURSIVE UtilizationRecords(_, _)
UtilizationRecords(list, t) ==
    IF list = << >> THEN << >>
    ELSE ConnectorRecords(list[1], connectors_list(list[1]), t)
         \o UtilizationRecords(Tail(list), t)

\* transform_utilization_data(stations_data, timestamp)
transform_utilization_data(sd, t) ==
    IF Falsy(sd) THEN [raised |-> FALSE, df |-> EmptyDF]
    ELSE IF \E i \in 1..Len(sd.list) : ~IsDict(sd.list[i])
    THEN [raised |-> TRUE, df |-> EmptyDF]
    ELSE [raised |-> FALSE, df |-> UtilizationRecords(sd.list, t)]

\* --------------------------------------------------------------- aggregator

\* The instant a timestamp cell (ISO string or datetime64) denotes.
TimeOf(c) == CHOOSE t \in Times : c.tx \in {IsoText(t), DatetimeText(t)}

\* The string ids that occur, in sorted order; pandas sorts integers before
\* strings.
IdStrings == <<"1", "a", "b">>
IdRank(c) ==
    IF c.ty = "int" THEN NumOf(c)
    ELSE MaxNum + (CHOOSE i \in 1..Len(IdStrings) : IdStrings[i] = c.tx)

GroupColumns == {"hourly_timestamp", "station_id"}
\* groupby drops the groups whose key has a missing value.
GroupKeys(df) ==
    {KeyOf(df[i], GroupColumns) : i \in
        {j \in 1..Len(df) : ~isna(df[j]["hourly_timestamp"]) /\ ~isna(df[j]["station_id"])}}
GroupRank(k) ==
    TimeOf(k["hourly_timestamp"]) * (MaxNum + Len(IdStrings) + 1) + IdRank(k["station_id"])

RECURSIVE SortedKeys(_)
SortedKeys(keys) ==
    IF keys = {} THEN << >>
    ELSE LET first == CHOOSE k \in keys : \A other \in keys : GroupRank(k) <= GroupRank(other)
         IN  <<first>> \o SortedKeys(keys \ {first})

RECURSIVE SumColumn(_, _, _)
SumColumn(df, members, c) ==
    IF members = {} THEN 0
    ELSE LET i == CHOOSE j \in members : TRUE
         IN  NumOf(df[i][c]) + SumColumn(df, members \ {i}, c)

\* One output row of the groupby(...).agg(...): the sums of the flags and the
\* count of the non-missing connector_id values.
HourlyRow(df, k) ==
    LET members == {i \in 1..Len(df) : KeyOf(df[i], GroupColumns) = k}
    IN  [hourly_timestamp |-> k["hourly_timestamp"],
         station_id |-> k["station_id"],
         is_available |-> IntCell(SumColumn(df, members, "is_available")),
         is_occupied |-> IntCell(SumColumn(df, members, "is_occupied")),
         is_out_of_order |-> IntCell(SumColumn(df, members, "is_out_of_order")),
         total_connectors |->
             IntCell(Cardinality({i \in members : ~isna(df[i]["connector_id"])}))]

\* aggregate_hourly_utilization(utilization_df); the two rate columns are
\* quotients of columns kept here.
aggregate_hourly_utilization(utilization_df) ==
    IF utilization_df = EmptyDF THEN EmptyDF
    ELSE LET keys == SortedKeys(GroupKeys(utilization_df))
         IN  [g \in 1..Len(keys) |-> HourlyRow(utilization_df, keys[g])]

\* ---------------------------------------------------------------- validator

\* pd.to_datetime on a cell: an ISO string becomes a datetime64 value.
to_datetime(c) ==
    IF c.ty = "str" /\ \E t \in Times : IsoText(t) = c.tx
    THEN DatetimeCell(CHOOSE t \in Times : IsoText(t) = c.tx)
    ELSE c

\* df[col] = pd.to_datetime(df[col]): assigns into the caller's frame
ConvertColumn(df, col) ==
    [i \in 1..Len(df) |-> [df[i] EXCEPT ![col] = to_datetime(@)]]

\* validate_stations_data: the flag it returns
stations_valid(stations_df) ==
    /\ stations_df # EmptyDF
    /\ {"id", "status"} \subseteq Columns(stations_df)

\* validate_utilization_data: the flag it returns and the frame as it leaves it
utilization_critical == {"timestamp", "station_id", "connector_id", "status"}
validate_utilization_data(utilization_df) ==
    IF utilization_df = EmptyDF \/ ~(utilization_critical \subseteq Columns(utilization_df))
    THEN [is_valid |-> FALSE, df |-> utilization_df]
    ELSE [is_valid |-> TRUE,
          df |-> IF "hourly_timestamp" \in Columns(utilization_df)
                 THEN ConvertColumn(ConvertColumn(utilization_df, "timestamp"),
                                    "hourly_timestamp")
                 ELSE ConvertColumn(utilization_df, "timestamp")]

\* validate_hourly_data: the flag it returns and the frame as it leaves it
validate_hourly_data(hourly_df) ==
    IF hourly_df = EmptyDF THEN [is_valid |-> FALSE, df |-> hourly_df]
    ELSE [is_valid |-> TRUE,
          df |-> IF "hourly_timestamp" \in Columns(hourly_df)
                 THEN ConvertColumn(hourly_df, "hourly_timestamp") ELSE hourly_df]

ColumnValues(df, c) == {df[i][c] : i \in 1..Len(df)}

\* The status-vocabulary checks: expected_statuses of validate_stations_data
\* and of validate_utilization_data.
expected_station_statuses ==
    {"Available", "Occupied", "OutOfOrder", "Planned", "UnderConstruction"}
expected_utilization_statuses == {"Available", "Occupied", "OutOfOrder", "FAULTED"}

\* set(status_counts.keys()) - expected_statuses; value_counts leaves the
\* missing values out.
unexpected_statuses(df, expected) ==
    {c \in ColumnValues(df, "status") :
        ~isna(c) /\ ~(c.ty = "str" /\ c.tx \in expected)}

\* The statuses the "Found unexpected status values" issue of each validator
\* names; a validator that returned early reports none.
station_status_issues(stations_df) ==
    IF stations_valid(stations_df)
    THEN unexpected_statuses(stations_df, expected_station_statuses) ELSE {}
utilization_status_issues(utilization_df) ==
    IF validate_utilization_data(utilization_df).is_valid
    THEN unexpected_statuses(utilization_df, expected_utilization_statuses) ELSE {}
\* The issue "Found 'FAULTED' status values" of validate_utilization_data.
faulted_reported(utilization_df) ==
    /\ validate_utilization_data(utilization_df).is_valid
    /\ StrCell("FAULTED") \in ColumnValues(utilization_df, "status")

\* ', '.join(unexpected_statuses) raises TypeError on a status that is no
\* string; the exception leaves the validator and its callers.
validation_raises(stations_df, utilization_df) ==
    \E c \in station_status_issues(stations_df)
             \cup utilization_status_issues(utilization_df) : c.ty # "str"

\* The three cross-dataset checks of validate_etl_pipeline (lines 372-430),
\* on the frames as the per-dataset validators left them.
cross_validation_issues(stations_df, utilization_df, hourly_df) ==
    (IF "id" \in Columns(stations_df) /\ "station_id" \in Columns(utilization_df)
        /\ ColumnValues(utilization_df, "station_id") \ ColumnValues(stations_df, "id") # {}
     THEN {"station IDs in utilization data not present in stations data"} ELSE {})
    \cup
    (IF "hourly_timestamp" \in Columns(utilization_df)
        /\ "hourly_timestamp" \in Columns(hourly_df)
        /\ {c.tx : c \in ColumnValues(hourly_df, "hourly_timestamp")}
             \ {c.tx : c \in ColumnValues(utilization_df, "hourly_timestamp")} # {}
     THEN {"timestamps in hourly data not present in utilization data"} ELSE {})
    \cup
    (IF "hourly_timestamp" \in Columns(utilization_df)
        /\ "hourly_timestamp" \in Columns(hourly_df)
        /\ Cardinality({c \in ColumnValues(utilization_df, "station_id") : ~isna(c)})
             # Cardinality({c \in ColumnValues(hourly_df, "station_id") : ~isna(c)})
     THEN {"Mismatch in unique station count"} ELSE {})

\* validate_and_log_data(stations_df, utilization_df, hourly_df): is_valid and
\* the utilization and hourly frames with their timestamp columns coerced.
validate_and_log_data(stations_df, utilization_df, hourly_df) ==
    LET u == validate_utilization_data(utilization_df)
        h == validate_hourly_data(hourly_df)
    IN  [raised |-> validation_raises(stations_df, utilization_df),
         is_valid |-> /\ h.is_valid
                      /\ stations_valid(stations_df)
                      /\ u.is_valid
                      /\ cross_validation_issues(stations_df, u.df, h.df) = {},
         issues |-> [stations |-> station_status_issues(stations_df),
                     utilization |-> utilization_status_issues(utilization_df),
                     faulted |-> faulted_reported(utilization_df),
                     cross |-> cross_validation_issues(stations_df, u.df, h.df)],
         utilization_df |-> u.df,
         hourly_df |-> h.df]

\* ------------------------------------------------------------------ inputs

\* Raw stations the upstream API may return.
RawConnector(id, status) == [id |-> id, status |-> StrCell(status)]
StationOne ==
    [id |-> IntCell(1), status |-> StrCell("AVAILABLE"),
     connectionsTypes |->
        << <<"CCS", <<RawConnector(IntCell(1), "AVAILABLE"),
                      RawConnector(IntCell(2), "OCCUPIED")>> >> >>]
StationTwo ==
    [id |-> IntCell(2), status |-> StrCell("OCCUPIED"),
     connectors |-> << [id |-> IntCell(3), status |-> StrCell("OCCUPIED"),
                        type |-> StrCell("CCS")] >>]
StationPlanned == [id |-> StrCell("a"), status |-> StrCell("planned")]

Batches ==
    { <<StationOne>>, <<StationTwo>>, <<StationPlanned>>, <<NonDict>>, << >> }

Responses ==
    {[kind |-> "error"], [kind |-> "other"]}
    \cup {[kind |-> "notjson", raises |-> e] : e \in {"ValueError", "RequestException"}}
    \cup {[kind |-> "list", stations |-> b] : b \in Batches}
    \cup {[kind |-> "object", stations |-> <<StationOne, StationTwo>>]}

\* Rowsets handed directly to save_to_csv, per table.
StatusCells == {StrCell("Available"), StrCell("Occupied")}
RowsFor(filename) ==
    IF filename = StationsFile
    THEN [id : {IntCell(1), StrCell("1"), StrCell("a")}, status : StatusCells]
    ELSE IF filename = UtilizationFile
    THEN [timestamp : {DatetimeCell(1), DatetimeCell(2)},
          connector_id : {IntCell(1), StrCell("a")}, status : StatusCells]
    ELSE [hourly_timestamp : {DatetimeCell(0)},
          station_id : {IntCell(1), StrCell("a")},
          total_connectors : {IntCell(1), IntCell(2)}]

FramesFor(filename) ==
    UNION {[1..n -> RowsFor(filename)] : n \in 0..MaxIncoming}

\* ------------------------------------------------------------ state machine

NoCall == [file |-> << >>, df |-> EmptyDF, append |-> FALSE,
           before |-> Absent, after |-> Absent, ret |-> "None", branch |-> "none"]
NoExt == [attempt |-> 0, requests |-> << >>, sleeps |-> << >>, done |-> FALSE,
          why |-> "none", result |-> NoData]
NoCycle == [end_time |-> 0, n |-> 0, start |-> 0, steps |-> << >>, outcome |-> "none"]
NoIssues == [stations |-> {}, utilization |-> {}, faulted |-> FALSE, cross |-> {}]
NoFrames == [stations_df |-> EmptyDF, utilization_df |-> EmptyDF,
             hourly_df |-> EmptyDF, is_valid |-> FALSE, issues |-> NoIssues]
NoStats == [extraction_count |-> 0, success_count |-> 0, total_stations |-> 0,
            total_utilization_records |-> 0, validation_issues |-> 0, errors |-> 0]
NoTables == [f \in FileNames |-> Absent]

\* The clock starts at 0 or in the middle of a clock hour.
StartTimes == {0, 1}

InitCommon ==
    /\ disk = NoTables
    /\ call = NoCall
    /\ ext = NoExt
    /\ stations_data = NoData
    /\ dfs = NoFrames
    /\ stats = NoStats
    /\ prev = NoTables

\* The scheduler loops of main.py and continuous.py.
Init ==
    /\ InitCommon
    /\ mode \in {"main", "continuous"}
    /\ pc = "loop"
    /\ now \in StartTimes
    \* end_time = datetime.now() + timedelta(hours=duration_hours)
    /\ cycle = [NoCycle EXCEPT !.end_time = now + DurationTicks]

\* Direct calls of save_to_csv.
InitPersist ==
    /\ InitCommon
    /\ mode = "persist"
    /\ pc = "idle"
    /\ now = 0
    /\ cycle = NoCycle

\* The call save_to_csv(df, filename, output_dir, append).
DoSave(df, filename, append) ==
    LET r == save_to_csv(df, filename, append, disk[filename])
    IN  /\ disk' = [disk EXCEPT ![filename] = r.file]
        /\ call' = [file |-> filename, df |-> df, append |-> append,
                    before |-> disk[filename], after |-> r.file,
                    ret |-> r.ret, branch |-> r.branch]

\* A caller saves rowsets into one of the tables, call after call.
PersistCall ==
    /\ mode = "persist"
    /\ \E filename \in FileNames, append \in BOOLEAN :
         \E df \in FramesFor(filename) :
            /\ call = NoCall \/ filename = call.file
            /\ Len(disk[filename].rows) + Len(df) <= MaxRows
            /\ DoSave(df, filename, append)
    /\ UNCHANGED <<mode, pc, now, cycle, ext, stations_data, dfs, stats, prev>>

NextPersist == PersistCall
SpecPersist == InitPersist /\ [][NextPersist]_vars

\* Calls of save_to_csv on a table whose file exists and cannot be read
\* (pd.read_csv raises), until a call has replaced it.
InitDamaged ==
    /\ call = NoCall
    /\ ext = NoExt
    /\ stations_data = NoData
    /\ dfs = NoFrames
    /\ stats = NoStats
    /\ prev = NoTables
    /\ disk \in {[NoTables EXCEPT ![f] = Corrupt] : f \in FileNames}
    /\ mode = "damaged"
    /\ pc = "idle"
    /\ now = 0
    /\ cycle = NoCycle

DamagedCall ==
    /\ mode = "damaged"
    /\ \E filename \in FileNames, append \in BOOLEAN :
         \E df \in FramesFor(filename) :
            /\ disk[filename] = Corrupt
            /\ DoSave(df, filename, append)
    /\ UNCHANGED <<mode, pc, now, cycle, ext, stations_data, dfs, stats, prev>>

NextDamaged == DamagedCall
SpecDamaged == InitDamaged /\ [][NextDamaged]_vars

\* Calls of the two transform functions on one batch of raw stations.

\* Longest connector list of a raw station handed to the transformer.
MaxConnectors == 2

\* A field the raw object does not have.
Missing == [ty |-> "absent", tx |-> ""]
WithoutMissing(fields) == {f \in DOMAIN fields : fields[f] # Missing}
MakeConnector(status, type) ==
    LET fields == [id |-> IntCell(1), status |-> status, type |-> type]
    IN  [f \in WithoutMissing(fields) |-> fields[f]]
MakeStation(status, total, conns) ==
    LET fields == [id |-> IntCell(1), status |-> status, totalConnectors |-> total]
    IN  [f \in WithoutMissing(fields) \cup {"connectors"} |->
            IF f = "connectors" THEN conns ELSE fields[f]]

\* Raw connectors: statuses in several spellings, unknown (FAULTED), absent
\* and null (None), types of every bucket, and an element that is no object.
TestConnectors ==
    { MakeConnector(StrCell("AVAILABLE"), StrCell("CCS")),
      MakeConnector(StrCell("available"), StrCell("AC Type 2")),
      MakeConnector(StrCell("OCCUPIED"), StrCell("Type2")),
      MakeConnector(StrCell("UNAVAILABLE"), StrCell("CHAdeMO")),
      MakeConnector(StrCell("OutOfOrder"), StrCell("ccs")),
      MakeConnector(StrCell("FAULTED"), Missing),
      MakeConnector(Missing, StrCell("Other")),
      MakeConnector(NaCell, StrCell("CCS")),
      [status |-> StrCell("OCCUPIED")],
      NonDict }
TestStatuses ==
    { Missing, NaCell, IntCell(2), StrCell(""), StrCell("AVAILABLE"), StrCell("occupied"),
      StrCell("UNAVAILABLE"), StrCell("planned"), StrCell("UNDER_CONSTRUCTION"),
      StrCell("CLOSED") }
TestTotals == {Missing, IntCell(0), IntCell(2), IntCell(-1), StrCell("2")}
TestStations ==
    { MakeStation(status, total, conns) :
        status \in TestStatuses, total \in TestTotals,
        conns \in UNION {[1..n -> TestConnectors] : n \in 0..MaxConnectors} }
\* A raw station without an id, and batches one element of which is no
\* object.
StationAnonymous ==
    [status |-> StrCell("AVAILABLE"),
     connectors |-> <<MakeConnector(StrCell("AVAILABLE"), StrCell("CCS"))>>]
\* Batches of one station, and batches of two in which the first station
\* has every connector list.
PairedStations ==
    {s \in TestStations :
        /\ "status" \in DOMAIN s /\ s["status"] = StrCell("AVAILABLE")
        /\ "totalConnectors" \notin DOMAIN s}
TestBatches ==
    {<<s>> : s \in TestStations} \cup {<<s, StationTwo>> : s \in PairedStations}
    \cup {<<StationAnonymous, StationTwo>>, <<NonDict, StationTwo>>, <<StationTwo, NonDict>>}

InitTransform ==
    /\ disk = NoTables
    /\ call = NoCall
    /\ ext = NoExt
    /\ dfs = NoFrames
    /\ stats = NoStats
    /\ prev = NoTables
    /\ cycle = NoCycle
    /\ mode = "transform"
    /\ pc = "input"
    /\ stations_data \in {Data(b) : b \in TestBatches}
    /\ now \in StartTimes

\* stations_df = transform_stations_data(stations_data),
\* utilization_df = transform_utilization_data(stations_data, current_time)
\* and hourly_df = aggregate_hourly_utilization(utilization_df); an exception
\* that leaves one of the functions leaves the caller.
TransformCall ==
    /\ mode = "transform" /\ pc = "input"
    /\ LET st == transform_stations_data(stations_data)
           ut == transform_utilization_data(stations_data, now)
       IN  IF st.raised \/ ut.raised
           THEN /\ pc' = "raised"
                /\ dfs' = dfs
           ELSE /\ pc' = "done"
                /\ dfs' = [dfs EXCEPT
                       !.stations_df = st.df,
                       !.utilization_df = ut.df,
                       !.hourly_df = aggregate_hourly_utilization(ut.df)]
    /\ UNCHANGED <<disk, call, mode, now, cycle, ext, stations_data, stats, prev>>

\* is_valid = validate_and_log_data(stations_df, utilization_df, hourly_df)
ValidateCall ==
    /\ mode = "transform" /\ pc = "done"
    /\ LET v == validate_and_log_data(dfs.stations_df, dfs.utilization_df, dfs.hourly_df)
       IN  IF v.raised
           THEN /\ pc' = "validation_raised"
                /\ dfs' = dfs
           ELSE /\ pc' = "validated"
                /\ dfs' = [dfs EXCEPT !.utilization_df = v.utilization_df,
                                      !.hourly_df = v.hourly_df,
                                      !.is_valid = v.is_valid,
                                      !.issues = v.issues]
    /\ UNCHANGED <<disk, call, mode, now, cycle, ext, stations_data, stats, prev>>

NextTransform == TransformCall \/ ValidateCall
SpecTransform == InitTransform /\ [][NextTransform]_vars

\* A raw station transformed directly, then normalised by the extractor and
\* transformed again.

\* Raw stations with every combination of the fields connectors,
\* connectionTypes and connectionsTypes: absent, empty, or holding one
\* connector.
ConnectorFields == {"connectors", "connectionTypes", "connectionsTypes"}
RawField(f, filled) ==
    CASE f = "id" -> IntCell(1)
      [] f = "status" -> StrCell("OCCUPIED")
      [] f = "connectors" ->
            IF filled THEN <<[id |-> IntCell(1), status |-> StrCell("AVAILABLE"),
                              type |-> StrCell("CCS")]>>
            ELSE << >>
      [] f = "connectionTypes" ->
            IF filled THEN << <<"CHAdeMO", <<RawConnector(IntCell(2), "OCCUPIED")>> >> >>
            ELSE << >>
      [] f = "connectionsTypes" ->
            IF filled THEN << <<"Type2", <<RawConnector(IntCell(3), "OCCUPIED")>> >> >>
            ELSE << >>
RawStations ==
    { [f \in {"id", "status"} \cup present |-> RawField(f, filled[f])] :
        present \in SUBSET ConnectorFields, filled \in [ConnectorFields -> BOOLEAN] }

InitRoundTrip ==
    /\ disk = NoTables
    /\ call = NoCall
    /\ ext = NoExt
    /\ dfs = NoFrames
    /\ stats = NoStats
    /\ prev = NoTables
    /\ cycle = NoCycle
    /\ mode = "roundtrip"
    /\ pc = "raw"
    /\ stations_data \in {Data(<<s>>) : s \in RawStations}
    /\ now \in 0..TicksPerHour

\* The two transform functions on the raw stations, as the API returned them.
TransformRaw ==
    /\ mode = "roundtrip" /\ pc = "raw"
    /\ dfs' = [dfs EXCEPT
           !.stations_df = transform_stations_data(stations_data).df,
           !.utilization_df = transform_utilization_data(stations_data, now).df]
    /\ pc' = "direct"
    /\ UNCHANGED <<disk, call, mode, now, cycle, ext, stations_data, stats, prev>>

\* The per-station processing of extract_charging_stations on the same raw
\* stations.
Normalize ==
    /\ mode = "roundtrip" /\ pc = "direct"
    /\ stations_data' = Data(ProcessStations(stations_data.list))
    /\ ext' = [ext EXCEPT !.done = TRUE, !.result = stations_data']
    /\ pc' = "normalized"
    /\ UNCHANGED <<disk, call, mode, now, cycle, dfs, stats, prev>>

\* The two transform functions on what the extractor returned.
TransformNormalized ==
    /\ mode = "roundtrip" /\ pc = "normalized"
    /\ dfs' = [dfs EXCEPT
           !.stations_df = transform_stations_data(stations_data).df,
           !.utilization_df = transform_utilization_data(stations_data, now).df]
    /\ pc' = "both"
    /\ UNCHANGED <<disk, call, mode, now, cycle, ext, stations_data, stats, prev>>

NextRoundTrip == TransformRaw \/ Normalize \/ TransformNormalized
SpecRoundTrip == InitRoundTrip /\ [][NextRoundTrip]_vars

\* ------------------------------------------------------- the scheduler loops

Looping == mode \in {"main", "continuous"}

\* A variant of the test below that asks `stations_data is None`, so that
\* an empty list of stations goes on into the pipeline.
ExtractionFailedNoneOnly(sd) == sd.isNone

\* `if not stations_data:` after the extraction, in run_single_extraction
\* and in the loop of continuous.py
ExtractionFailed(sd) == Falsy(sd)

\* `while datetime.now() < end_time:` entered: the loop body starts a
\* pipeline invocation. main.py counts the extraction here, continuous.py
\* takes current_time here.
StartCycle ==
    /\ Looping /\ pc = "loop"
    /\ now < cycle.end_time
    /\ cycle.n < MaxCycles
    /\ cycle' = [cycle EXCEPT !.n = @ + 1, !.start = now, !.steps = << >>,
                              !.outcome = "running"]
    /\ stats' = IF mode = "main"
                THEN [stats EXCEPT !.extraction_count = @ + 1] ELSE stats
    /\ ext' = NoExt
    /\ stations_data' = NoData
    /\ dfs' = NoFrames
    /\ prev' = disk
    /\ pc' = "extract"
    /\ UNCHANGED <<disk, call, mode, now>>

\* The loop condition is false: the loop ends and the function returns.
Finish ==
    /\ Looping /\ pc = "loop"
    /\ now >= cycle.end_time
    /\ pc' = "done"
    /\ UNCHANGED <<disk, call, mode, now, cycle, ext, stations_data, dfs, stats, prev>>

\* One pass of the retry loop of extract_charging_stations: a request that
\* gets response r, then either the sleep before the next
\* attempt or the return. On a falsy result the callers skip the rest of the
\* invocation (main.py returns three Nones, continuous.py counts an error).
Request ==
    /\ Looping /\ pc = "extract"
    /\ \E r \in Responses :
         LET h == HandleResponse(r, ext.attempt, MaxRetries)
             req == [start |-> now, end |-> now, response |-> r]
         IN  IF h.next = "retry"
             THEN /\ ext' = [ext EXCEPT
                        !.attempt = @ + 1,
                        !.requests = Append(@, req),
                        !.sleeps = Append(@, [start |-> now,
                                              end |-> now + RetryDelayTicks])]
                  /\ now' = now + RetryDelayTicks
                  /\ UNCHANGED <<pc, stations_data, cycle, stats>>
             ELSE /\ ext' = [ext EXCEPT
                        !.requests = Append(@, req), !.done = TRUE,
                        !.why = h.why, !.result = h.result]
                  /\ now' = now
                  /\ stations_data' = h.result
                  /\ IF ExtractionFailed(h.result)
                     THEN /\ cycle' = [cycle EXCEPT !.steps = Append(@, "extract"),
                                                    !.outcome = "failed"]
                          /\ stats' = IF mode = "continuous"
                                      THEN [stats EXCEPT !.errors = @ + 1] ELSE stats
                          /\ pc' = "wait"
                     ELSE /\ cycle' = [cycle EXCEPT !.steps = Append(@, "extract")]
                          /\ stats' = stats
                          /\ pc' = "transform"
    /\ UNCHANGED <<disk, call, mode, dfs, prev>>

\* transform_stations_data, transform_utilization_data and
\* aggregate_hourly_utilization. main.py stamps the records with the time
\* after the extraction, continuous.py with the time the cycle started. An
\* exception leaves the while loop: the try statement encloses the loop.
Transform ==
    /\ Looping /\ pc = "transform"
    /\ LET st == transform_stations_data(stations_data)
           ut == transform_utilization_data(stations_data,
                     IF mode = "main" THEN now ELSE cycle.start)
       IN  IF st.raised \/ ut.raised
           THEN /\ cycle' = [cycle EXCEPT !.steps = Append(@, "transform_stations"),
                                          !.outcome = "exception"]
                /\ stats' = IF mode = "continuous"
                            THEN [stats EXCEPT !.errors = @ + 1] ELSE stats
                /\ pc' = "done"
                /\ dfs' = dfs
           ELSE /\ cycle' = [cycle EXCEPT !.steps =
                                @ \o <<"transform_stations", "transform_utilization",
                                       "aggregate">>]
                /\ dfs' = [dfs EXCEPT !.stations_df = st.df,
                                      !.utilization_df = ut.df,
                                      !.hourly_df = aggregate_hourly_utilization(ut.df)]
                /\ stats' = stats
                /\ pc' = "validate"
    /\ UNCHANGED <<disk, call, mode, now, ext, stations_data, prev>>

\* A variant of the update below that counts the extraction only when the
\* validation passed.
update_statistics_when_valid(st, stations_df, utilization_df, is_valid) ==
    [st EXCEPT
        !.extraction_count = IF is_valid THEN @ + 1 ELSE @,
        !.total_stations = Len(stations_df),
        !.total_utilization_records = @ + Len(utilization_df),
        !.validation_issues = IF is_valid THEN @ ELSE @ + 1]

\* "Update statistics and track validation results" of continuous.py
update_statistics(st, stations_df, utilization_df, is_valid) ==
    [st EXCEPT
        !.extraction_count = @ + 1,
        !.total_stations = Len(stations_df),
        !.total_utilization_records = @ + Len(utilization_df),
        !.validation_issues = IF is_valid THEN @ ELSE @ + 1]

\* validate_and_log_data, and in continuous.py the statistics that follow it.
Validate ==
    /\ Looping /\ pc = "validate"
    /\ LET v == validate_and_log_data(dfs.stations_df, dfs.utilization_df, dfs.hourly_df)
       IN  IF v.raised
           THEN /\ cycle' = [cycle EXCEPT !.steps = Append(@, "validate"),
                                          !.outcome = "exception"]
                /\ stats' = IF mode = "continuous"
                            THEN [stats EXCEPT !.errors = @ + 1] ELSE stats
                /\ pc' = "done"
                /\ dfs' = dfs
           ELSE /\ dfs' = [dfs EXCEPT !.utilization_df = v.utilization_df,
                                      !.hourly_df = v.hourly_df,
                                      !.is_valid = v.is_valid,
                                      !.issues = v.issues]
                /\ stats' = IF mode = "continuous"
                            THEN update_statistics(stats, dfs.stations_df,
                                                   dfs.utilization_df, v.is_valid)
                            ELSE stats
                /\ cycle' = [cycle EXCEPT !.steps = Append(@, "validate")]
                /\ pc' = "save_stations"
    /\ UNCHANGED <<disk, call, mode, now, ext, stations_data, prev>>

\* save_to_csv(stations_df, ...): both callers leave append at False.
SaveStations ==
    /\ Looping /\ pc = "save_stations"
    /\ DoSave(dfs.stations_df, StationsFile, FALSE)
    /\ cycle' = [cycle EXCEPT !.steps = Append(@, "save_stations")]
    /\ pc' = "save_utilization"
    /\ UNCHANGED <<mode, now, ext, stations_data, dfs, stats, prev>>

\* save_to_csv(utilization_df, ...): continuous.py passes append=True and
\* this is its last save; main.py goes on to the hourly table.
SaveUtilization ==
    /\ Looping /\ pc = "save_utilization"
    /\ DoSave(dfs.utilization_df, UtilizationFile, mode = "continuous")
    /\ cycle' = [cycle EXCEPT
           !.steps = Append(@, "save_utilization"),
           !.outcome = IF mode = "continuous" THEN "ok" ELSE @]
    /\ pc' = IF mode = "continuous" THEN "wait" ELSE "save_hourly"
    /\ UNCHANGED <<mode, now, ext, stations_data, dfs, stats, prev>>

\* save_to_csv(hourly_df, ...) of run_single_extraction, which then returns
\* the three frames; its caller counts a success.
SaveHourly ==
    /\ mode = "main" /\ pc = "save_hourly"
    /\ DoSave(dfs.hourly_df, HourlyFile, FALSE)
    /\ cycle' = [cycle EXCEPT !.steps = Append(@, "save_hourly"), !.outcome = "ok"]
    /\ stats' = [stats EXCEPT !.success_count = @ + 1]
    /\ pc' = "wait"
    /\ UNCHANGED <<mode, now, ext, stations_data, dfs, prev>>

\* The sleep that ends the loop body. main.py sleeps a whole interval from
\* now, continuous.py what is left of the interval since the cycle started;
\* neither sleeps when the sleep would reach the end time.
SleepTicks ==
    IF mode = "main"
    THEN (IF now + IntervalTicks < cycle.end_time THEN IntervalTicks ELSE 0)
    ELSE LET elapsed == now - cycle.start
             wait == IF IntervalTicks - elapsed > 0 THEN IntervalTicks - elapsed ELSE 0
         IN  IF wait > 0 /\ now + wait < cycle.end_time THEN wait ELSE 0

Wait ==
    /\ Looping /\ pc = "wait"
    /\ now' = now + SleepTicks
    /\ pc' = "loop"
    /\ UNCHANGED <<disk, call, mode, cycle, ext, stations_data, dfs, stats, prev>>

Next ==
    \/ StartCycle
    \/ Finish
    \/ Request
    \/ Transform
    \/ Validate
    \/ SaveStations
    \/ SaveUtilization
    \/ SaveHourly
    \/ Wait

Spec == Init /\ [][Next]_vars

\* The same loops called with a duration of one interval (for instance
\* --duration 1 --interval 60): the end time is one interval away when the
\* loop is entered, as it is before the last invocations of a longer run.
InitLastInterval ==
    /\ InitCommon
    /\ mode \in {"main", "continuous"}
    /\ pc = "loop"
    /\ now \in StartTimes
    /\ cycle = [NoCycle EXCEPT !.end_time = now + IntervalTicks]

SpecLastInterval == InitLastInterval /\ [][Next]_vars

\* ------------------------------------------------------- persister claims

\* The dedup key the specification assigns to each table.
TableKey(filename) ==
    IF filename = StationsFile THEN {"id"}
    ELSE IF filename = UtilizationFile THEN {"timestamp", "connector_id"}
    ELSE {"hourly_timestamp", "station_id"}

\* No two rows of a persisted table have the same text in the key columns.
UniqueKeys(file, key) ==
    \A i, j \in 1..Len(file.rows) :
        i < j => KeyOf(file.rows[i], key) # KeyOf(file.rows[j], key)

\* C1: after any call of save_to_csv that writes a table (first write, merge
\* or overwrite fallback), no two rows of the persisted table share the
\* table's dedup key.
C1_KeyUniqueAfterWrite ==
    call.branch \in {"write", "merge", "fallback"}
        => UniqueKeys(disk[call.file], TableKey(call.file))

\* C2: for each of the three configured files, a merge deduplicates on that
\* table's own key: the file afterwards is existing + incoming with the
\* duplicates of the table's key dropped, last occurrence kept.
C2_MergeUsesTableKey ==
    call.branch = "merge"
        => call.after = to_csv(drop_duplicates(concat(read_csv(call.before), call.df),
                                               TableKey(call.file)))

\* The rows of a table with every duplicated key reduced to its last
\* occurrence, keys compared as the table holds them.
LastOccurrences(rows, key) ==
    SelectRows(rows,
        [i \in 1..Len(rows) |->
            ~ \E j \in (i + 1)..Len(rows) : KeyOf(rows[j], key) = KeyOf(rows[i], key)],
        1)

\* C3: when a prior table exists, merging yields the existing rows followed
\* by the incoming rows, every duplicated key reduced to its last occurrence.
C3_MergeKeepsLast ==
    call.branch = "merge"
        => call.after.rows =
               LastOccurrences(call.before.rows \o to_csv(call.df).rows,
                               TableKey(call.file))

\* C4: merging the same incoming rowset a second time leaves the table as
\* the first merge left it.
C4_MergeIdempotent ==
    call.branch = "merge"
        => save_to_csv(call.df, call.file, TRUE, call.after).file = call.after

\* -------------------------------------------------------- pipeline claims

Keys(file, key) == {KeyOf(file.rows[i], key) : i \in 1..Len(file.rows)}

\* C5: persistence is incremental: when an invocation has succeeded, every
\* key that was in a table when the invocation started is still in it.
C5_KeysNeverLost ==
    (cycle.outcome = "ok" /\ pc = "wait")
        => \A f \in FileNames : Keys(prev[f], TableKey(f)) \subseteq Keys(disk[f], TableKey(f))

\* Step `later` occurs in the steps of the invocation, after step `earlier`.
After(steps, earlier, later) ==
    \E i, j \in 1..Len(steps) : i < j /\ steps[i] = earlier /\ steps[j] = later

\* C6: an invocation whose extraction succeeded and that ran to its end has
\* committed each of the three rowsets (stations, utilization, hourly) after
\* the validator ran, whatever the validation result.
C6_CommitsAllThree ==
    (ext.done /\ ~ExtractionFailed(stations_data) /\ cycle.outcome = "ok")
        => /\ After(cycle.steps, "validate", "save_stations")
           /\ After(cycle.steps, "validate", "save_utilization")
           /\ After(cycle.steps, "validate", "save_hourly")

\* C7: an exception raised inside a pipeline invocation does not end the
\* scheduler loop: the loop is left only when the end time is reached.
C7_ExceptionKeepsLooping ==
    (cycle.outcome = "exception" /\ pc = "done") => now >= cycle.end_time

\* The extractor returned no data: None or an empty list.
ReturnedNoData == ext.done /\ (ext.result.isNone \/ ext.result.list = << >>)

\* C8: when extract_charging_stations returns no data, no transform,
\* validate or persist step runs in the invocation and the three persisted
\* tables stay as they were when it started.
C8_FailedInvocationChangesNothing ==
    (Looping /\ ReturnedNoData)
        => /\ cycle.steps = <<"extract">>
           /\ dfs = NoFrames
           /\ disk = prev

\* A failed extraction that came after rows had been persisted, the loop
\* body of that invocation over.
C8_Witness ==
    /\ Looping /\ ReturnedNoData /\ pc = "loop"
    /\ disk[StationsFile].kind = "csv"
    /\ cycle.n >= 2

\* A transport failure (an HTTP 500: raise_for_status raises), and any
\* request that did not bring stations.
IsHttpError(req) == req.response.kind = "error"
IsError(req) == req.response.kind \in {"error", "notjson", "other"}
IsStations(req) == req.response.kind \in {"list", "object"}

\* C9: the retry loop issues at most max_retries + 1 requests; every failed
\* request but the last allowed one is followed by a sleep of retry_delay and
\* then the next request; only the last request can be a success, and then
\* the stations returned are those of its response; a network failure is
\* returned only when max_retries + 1 requests have all failed, and always
\* when they all failed in transport.
C9_BoundedRetries ==
    LET n == Len(ext.requests)
        m == Len(ext.sleeps)
    IN  /\ n <= MaxRetries + 1
        /\ m = (IF ext.done THEN n - 1 ELSE n)
        /\ \A i \in 1..m :
              /\ IsError(ext.requests[i])
              /\ ext.sleeps[i].start = ext.requests[i].end
              /\ ext.sleeps[i].end = ext.sleeps[i].start + RetryDelayTicks
              /\ ext.sleeps[i].end = (IF i < n THEN ext.requests[i + 1].start ELSE now)
        /\ (ext.done /\ IsStations(ext.requests[n]))
              => /\ ext.why = "ok"
                 /\ ~ext.result.isNone
                 /\ Len(ext.result.list) = Len(ext.requests[n].response.stations)
                 /\ \A i \in 1..Len(ext.result.list) :
                       IsDict(ext.result.list[i])
                          => ext.result.list[i]["id"] = ext.requests[n].response.stations[i]["id"]
        /\ (ext.done /\ ext.why = "network")
              => (n = MaxRetries + 1 /\ \A i \in 1..n : IsError(ext.requests[i]))
        /\ (n = MaxRetries + 1 /\ \A i \in 1..n : IsHttpError(ext.requests[i]))
              => (ext.done /\ ext.why = "network")
        /\ (ext.done /\ ext.why = "network") => ext.result = NoData

\* Three failed requests, three sleeps, then a request that brought stations.
C9_Witness ==
    /\ ext.done /\ ext.why = "ok"
    /\ Len(ext.requests) = MaxRetries + 1
    /\ Len(ext.sleeps) = MaxRetries
    /\ ext.result.list # << >>

\* C10 as amended: with max_retries = 3, when the first four requests all
\* fail (HTTP 500) the extractor has returned a network failure with no
\* data, the invocation persists no row, and the loop ends only when the end
\* time is reached.
C10_FourFailures ==
    (MaxRetries = 3 /\ Len(ext.requests) >= 4
        /\ \A i \in 1..4 : IsHttpError(ext.requests[i]))
        => /\ ext.done /\ ext.why = "network"
           /\ stations_data = NoData
           /\ cycle.outcome = "failed"
           /\ disk = prev
           /\ pc \in {"wait", "loop", "done"}
           /\ (pc = "done" => now >= cycle.end_time)

\* Four failed requests, the loop then went on to a next cycle's wait check
\* with rows of an earlier cycle still in the table.
C10_Witness ==
    /\ Len(ext.requests) = 4
    /\ \A i \in 1..4 : IsHttpError(ext.requests[i])
    /\ pc = "loop" /\ now < cycle.end_time
    /\ disk[StationsFile].kind = "csv"

\* C10 as stated: with max_retries = 3, an invocation whose first three
\* requests failed (HTTP 500) ends with no data extracted and no row
\* persisted.
C10_ThreeFailures ==
    (MaxRetries = 3 /\ pc = "wait" /\ Len(ext.requests) >= 3
        /\ \A i \in 1..3 : IsHttpError(ext.requests[i]))
        => /\ Falsy(stations_data)
           /\ disk = prev

\* -------------------------------------------------- error-handling claims

\* C11: a response that is not JSON, or JSON of neither accepted shape, is
\* the last request of its extraction: no sleep or request follows it, the
\* extractor returns no data and the invocation persists no row.
C11_MalformedEndsExtraction ==
    \A i \in 1..Len(ext.requests) :
        ext.requests[i].response.kind \in {"notjson", "other"}
            => /\ i = Len(ext.requests)
               /\ Len(ext.sleeps) = i - 1
               /\ ext.done
               /\ stations_data = NoData
               /\ disk = prev

\* C12: a call with append=True on an existing file that cannot be read
\* leaves the file holding the incoming rowset alone and returns the file
\* path; nothing is raised to the caller.
C12_FallbackOverwrites ==
    (call.append /\ call.before = Corrupt /\ call.df # EmptyDF)
        => /\ call.ret = "path"
           /\ call.after = to_csv(call.df)
           /\ disk[call.file] = to_csv(call.df)

\* An unreadable utilization file replaced by a rowset of two rows.
C12_Witness ==
    /\ call.append /\ call.before = Corrupt /\ call.branch = "fallback"
    /\ call.file = UtilizationFile
    /\ Len(disk[UtilizationFile].rows) = 2

\* ------------------------------------------------------ transformer claims

\* The raw station a station row came from, and the station rows of a raw
\* station (the stations of a batch have distinct ids).
Batch == stations_data.list
SourceOf(row) == CHOOSE i \in 1..Len(Batch) : Get(Batch[i], "id") = row["id"]
StationRows == 1..Len(dfs.stations_df)
Transformed == mode = "transform" /\ pc = "done"

\* The synonym table, applied case-insensitively to a string status; any
\* other value stays as it is.
Synonym(c) ==
    IF c.ty # "str" THEN c
    ELSE CASE Upper(c.tx) = "AVAILABLE" -> StrCell("Available")
           [] Upper(c.tx) = "OCCUPIED" -> StrCell("Occupied")
           [] Upper(c.tx) \in {"UNAVAILABLE", "OUT_OF_ORDER"} -> StrCell("OutOfOrder")
           [] Upper(c.tx) = "PLANNED" -> StrCell("Planned")
           [] Upper(c.tx) = "UNDER_CONSTRUCTION" -> StrCell("UnderConstruction")
           [] OTHER -> c

IsAvailableConnector(c) ==
    IsDict(c) /\ "status" \in DOMAIN c /\ c["status"].ty = "str"
        /\ Upper(c["status"].tx) = "AVAILABLE"
HasAvailable(station) ==
    \E i \in 1..Len(connectors_list(station)) :
        IsAvailableConnector(connectors_list(station)[i])
\* The station loop skips a station one of whose connectors raises.
Skipped(station) ==
    \E i \in 1..Len(connectors_list(station)) :
        StationConnectorRaises(connectors_list(station)[i])

\* C13: a station row with total_connectors > 0 and no available connector
\* has status Occupied, unless the station's own status maps to OutOfOrder,
\* Planned or UnderConstruction, which is then the derived status.
C13_OwnStatusOverridesOccupied ==
    Transformed =>
        \A i \in StationRows :
            LET row == dfs.stations_df[i]
                station == Batch[SourceOf(row)]
                own == Synonym(Get(station, "status"))
            IN  (NumOf(row["total_connectors"]) > 0 /\ ~HasAvailable(station))
                    => row["status"] =
                          (IF own \in {StrCell("OutOfOrder"), StrCell("Planned"),
                                       StrCell("UnderConstruction")}
                           THEN own ELSE StrCell("Occupied"))

\* C14: every station that is processed and has a resolved connector whose
\* status upper-cased is AVAILABLE gets a row with status Available,
\* whatever its raw status and its totalConnectors.
C14_AvailableWins ==
    Transformed =>
        \A k \in 1..Len(Batch) :
            (HasAvailable(Batch[k]) /\ ~Skipped(Batch[k]))
                => \E i \in StationRows :
                      /\ SourceOf(dfs.stations_df[i]) = k
                      /\ dfs.stations_df[i]["status"] = StrCell("Available")

\* A planned station with a negative totalConnectors and an available
\* connector.
C14_Witness ==
    /\ Transformed
    /\ Get(Batch[1], "status") = StrCell("planned")
    /\ Get(Batch[1], "totalConnectors") = IntCell(-1)
    /\ HasAvailable(Batch[1])
    /\ Len(dfs.stations_df) >= 1
    /\ dfs.stations_df[1]["status"] = StrCell("Available")

\* C15: a station row with total_connectors = 0 has the raw status mapped
\* through the synonym table, or the raw value itself when the table does
\* not hold it; a raw status that is missing shows as Unknown.
C15_NoConnectorsKeepsRawStatus ==
    Transformed =>
        \A i \in StationRows :
            LET row == dfs.stations_df[i]
                raw == Get(Batch[SourceOf(row)], "status")
            IN  NumOf(row["total_connectors"]) = 0
                    => row["status"] = (IF isna(raw) THEN StrCell("Unknown") ELSE Synonym(raw))

\* Stations without connectors: one mapped, one whose status the table does
\* not hold.
C15_Witness ==
    /\ Transformed
    /\ Len(Batch) = 1 /\ Len(dfs.stations_df) = 1
    /\ dfs.stations_df[1]["total_connectors"] = IntCell(0)
    /\ \/ /\ Get(Batch[1], "status") = StrCell("UNDER_CONSTRUCTION")
          /\ dfs.stations_df[1]["status"] = StrCell("UnderConstruction")
       \/ /\ Get(Batch[1], "status") = StrCell("CLOSED")
          /\ dfs.stations_df[1]["status"] = StrCell("CLOSED")

\* C16: total_connectors of a station row is the upstream totalConnectors
\* when that is present, numeric and not zero, and the number of resolved
\* connectors otherwise.
C16_TotalConnectors ==
    Transformed =>
        \A i \in StationRows :
            LET row == dfs.stations_df[i]
                station == Batch[SourceOf(row)]
                upstream == Get(station, "totalConnectors")
            IN  row["total_connectors"] =
                    (IF upstream.ty = "int" /\ upstream # IntCell(0) THEN upstream
                     ELSE IntCell(Len(connectors_list(station))))

\* An upstream total of 2 on a station with one connector, kept.
C16_Witness ==
    /\ Transformed
    /\ Get(Batch[1], "totalConnectors") = IntCell(2)
    /\ Len(connectors_list(Batch[1])) = 1
    /\ Len(dfs.stations_df) >= 1
    /\ dfs.stations_df[1]["total_connectors"] = IntCell(2)

CountWhere(conns, types) ==
    Cardinality({j \in 1..Len(conns) : Get(conns[j], "type") \in types})

\* C17: in a station row every resolved connector is counted in exactly one
\* of the four type columns (CCS; CHAdeMO; Type2 or 'AC Type 2'; anything
\* else), so the four columns sum to the number of resolved connectors.
C17_TypeColumnsPartition ==
    Transformed =>
        \A i \in StationRows :
            LET row == dfs.stations_df[i]
                conns == connectors_list(Batch[SourceOf(row)])
                ccs == CountWhere(conns, {StrCell("CCS")})
                chademo == CountWhere(conns, {StrCell("CHAdeMO")})
                type2 == CountWhere(conns, {StrCell("Type2"), StrCell("AC Type 2")})
            IN  /\ row["ccs_connectors"] = IntCell(ccs)
                /\ row["chademo_connectors"] = IntCell(chademo)
                /\ row["type2_connectors"] = IntCell(type2)
                /\ row["other_connectors"] = IntCell(Len(conns) - ccs - chademo - type2)

StationStatuses ==
    {StrCell(w) : w \in {"Available", "Occupied", "OutOfOrder", "Planned",
                         "UnderConstruction", "Unknown"}}

\* C18: the status of every station row is non-null and one of Available,
\* Occupied, OutOfOrder, Planned, UnderConstruction, Unknown.
C18_StatusInEnumeration ==
    Transformed =>
        \A i \in StationRows : dfs.stations_df[i]["status"] \in StationStatuses

\* C19: in every utilization record with status Available, Occupied or
\* OutOfOrder exactly the matching flag is 1; with any other status, or
\* none, the three flags are 0.
C19_FlagsMatchStatus ==
    Transformed =>
        \A i \in 1..Len(dfs.utilization_df) :
            LET rec == dfs.utilization_df[i]
            IN  /\ rec["is_available"] = Flag(rec["status"] = StrCell("Available"))
                /\ rec["is_occupied"] = Flag(rec["status"] = StrCell("Occupied"))
                /\ rec["is_out_of_order"] = Flag(rec["status"] = StrCell("OutOfOrder"))

\* A station whose two connectors are UNAVAILABLE and FAULTED.
C19_Witness ==
    /\ Transformed
    /\ Len(dfs.utilization_df) >= 2
    /\ dfs.utilization_df[1]["status"] = StrCell("OutOfOrder")
    /\ dfs.utilization_df[1]["is_out_of_order"] = IntCell(1)
    /\ dfs.utilization_df[2]["status"] = StrCell("FAULTED")
    /\ dfs.utilization_df[2]["is_available"] = IntCell(0)
    /\ dfs.utilization_df[2]["is_occupied"] = IntCell(0)
    /\ dfs.utilization_df[2]["is_out_of_order"] = IntCell(0)

\* Every connector of the station is an object.
WellFormed(station) ==
    \A i \in 1..Len(connectors_list(station)) : IsDict(connectors_list(station)[i])
\* The start of the clock hour of instant t.
HourStart(t) == CHOOSE h \in 0..t : h % TicksPerHour = 0 /\ t - h < TicksPerHour
RecordsOf(station) ==
    {i \in 1..Len(dfs.utilization_df) :
        dfs.utilization_df[i]["station_id"] = Get(station, "id")}

\* C20: transform_utilization_data(stations, at) emits one record per
\* resolved connector of every well-formed station and none for a station
\* without connectors, each with timestamp at and hourly_timestamp the start
\* of at's clock hour.
C20_OneRecordPerConnector ==
    Transformed =>
        /\ \A k \in 1..Len(Batch) :
              WellFormed(Batch[k])
                 => Cardinality(RecordsOf(Batch[k])) = Len(connectors_list(Batch[k]))
        /\ \A i \in 1..Len(dfs.utilization_df) :
              /\ dfs.utilization_df[i]["timestamp"].ty = "str"
              /\ TimeOf(dfs.utilization_df[i]["timestamp"]) = now
              /\ TimeOf(dfs.utilization_df[i]["hourly_timestamp"]) = HourStart(now)

\* Two stations, three records, stamped in the middle of a clock hour.
C20_Witness ==
    /\ Transformed
    /\ Len(Batch) = 2
    /\ Len(dfs.utilization_df) = 3
    /\ now % TicksPerHour # 0

\* ------------------------------------------------------- aggregator claims

\* The utilization records of one (hourly_timestamp, station_id) pair, and
\* the number of them whose column c holds 1.
GroupOf(hts, sid) ==
    {i \in 1..Len(dfs.utilization_df) :
        /\ dfs.utilization_df[i]["hourly_timestamp"] = hts
        /\ dfs.utilization_df[i]["station_id"] = sid}
FlagCount(group, c) ==
    Cardinality({i \in group : dfs.utilization_df[i][c] = IntCell(1)})
Pairs(df) == {<<df[i]["hourly_timestamp"], df[i]["station_id"]>> : i \in 1..Len(df)}

\* C21: aggregate_hourly_utilization outputs exactly one row per distinct
\* (hourly_timestamp, station_id) of its input; the three flags of the row
\* are the sums over the group and total_connectors is the number of records
\* of the group.
C21_OneRowPerGroup ==
    Transformed =>
        /\ Pairs(dfs.hourly_df) = Pairs(dfs.utilization_df)
        /\ Len(dfs.hourly_df) = Cardinality(Pairs(dfs.utilization_df))
        /\ \A g \in 1..Len(dfs.hourly_df) :
              LET row == dfs.hourly_df[g]
                  group == GroupOf(row["hourly_timestamp"], row["station_id"])
              IN  /\ row["is_available"] = IntCell(FlagCount(group, "is_available"))
                  /\ row["is_occupied"] = IntCell(FlagCount(group, "is_occupied"))
                  /\ row["is_out_of_order"] = IntCell(FlagCount(group, "is_out_of_order"))
                  /\ row["total_connectors"] = IntCell(Cardinality(group))

\* C22: in every hourly row with total_connectors > 0 that the aggregation of
\* a transformed batch produces, is_occupied and is_available lie between 0
\* and total_connectors.
C22_RatesWithinUnit ==
    Transformed =>
        \A g \in 1..Len(dfs.hourly_df) :
            LET row == dfs.hourly_df[g]
                total == NumOf(row["total_connectors"])
            IN  total > 0 =>
                    /\ 0 <= NumOf(row["is_occupied"]) /\ NumOf(row["is_occupied"]) <= total
                    /\ 0 <= NumOf(row["is_available"]) /\ NumOf(row["is_available"]) <= total

\* -------------------------------------------------- malformed-record claims

\* The batch without its k-th station, and the rows of a frame that do not
\* carry the id of that station in column c.
Without(k) == [i \in 1..(Len(Batch) - 1) |-> IF i < k THEN Batch[i] ELSE Batch[i + 1]]
RowsOfOthers(df, c, k) ==
    SelectRows(df, [i \in 1..Len(df) |-> df[i][c] # Get(Batch[k], "id")], 1)
\* Processing the station raises in one of the two transform functions: it
\* is no object, or one of its connectors is none or has a status that is
\* no string.
Malformed(station) == ~IsDict(station) \/ Skipped(station)
TransformReturned == mode = "transform" /\ pc \in {"done", "raised"}

\* C23: when a raw station of the batch raises during processing, both
\* transform functions still return, and the rows of every other station are
\* those the functions produce for the batch without that station.
C23_MalformedStationSkipped ==
    TransformReturned =>
        \A k \in 1..Len(Batch) :
            Malformed(Batch[k]) =>
                /\ pc = "done"
                /\ RowsOfOthers(dfs.stations_df, "id", k)
                      = transform_stations_data(Data(Without(k))).df
                /\ RowsOfOthers(dfs.utilization_df, "station_id", k)
                      = transform_utilization_data(Data(Without(k)), now).df

\* A station of the batch whose processing raises at one of its connectors in
\* transform_utilization_data.
RaisesAtConnector(station) == IsDict(station) /\ ~WellFormed(station)

\* C28: when the processing of a station raises at one of its connectors in
\* transform_utilization_data, the output holds no record of that station.
C28_SkipIsAtomic ==
    Transformed =>
        \A k \in 1..Len(Batch) :
            RaisesAtConnector(Batch[k]) => RecordsOf(Batch[k]) = {}

\* -------------------------------------------------------- validator claims

Validated == mode = "transform" /\ pc = "validated"
CriticalColumnAbsent ==
    \/ ~({"id", "status"} \subseteq Columns(dfs.stations_df))
    \/ ~({"timestamp", "station_id", "connector_id", "status"}
            \subseteq Columns(dfs.utilization_df))

\* C24: the flag validate_etl_pipeline returns is false only when a critical
\* required column is absent from the stations or the utilization rowset.
C24_OnlyCriticalColumnsFail ==
    Validated => (~dfs.is_valid => CriticalColumnAbsent)

UtilizationStatuses ==
    {StrCell(w) : w \in {"Available", "Occupied", "OutOfOrder", "FAULTED"}}
\* The status values of a frame that are not in an enumeration.
Outside(df, enumeration) ==
    {c \in ColumnValues(df, "status") : ~isna(c) /\ c \notin enumeration}
\* The utilization statuses some issue of the validator names.
ReportedUtilization ==
    dfs.issues.utilization
        \cup (IF dfs.issues.faulted THEN {StrCell("FAULTED")} ELSE {})

\* C25: the validator reports a station status exactly when it is not one of
\* Available, Occupied, OutOfOrder, Planned, UnderConstruction, Unknown, and
\* a utilization status exactly when it is not one of Available, Occupied,
\* OutOfOrder, FAULTED.
C25_VocabularyChecks ==
    Validated =>
        /\ dfs.issues.stations
              = Outside(dfs.stations_df, StationStatuses)
        /\ ReportedUtilization
              = Outside(dfs.utilization_df, UtilizationStatuses)

\* C27: every station_id of the utilization rowset of a batch is an id of
\* the stations rowset of the same batch, and the validator does not report
\* station ids of the utilization data that the stations data lack.
C27_UtilizationStationsKnown ==
    (Transformed \/ Validated) =>
        /\ ColumnValues(dfs.utilization_df, "station_id")
              \subseteq ColumnValues(dfs.stations_df, "id")
        /\ "station IDs in utilization data not present in stations data"
              \notin dfs.issues.cross

\* -------------------------------------------------------- round-trip claim

\* C26: for every raw station, with every combination of connectors,
\* connectionTypes and connectionsTypes present or absent, the station rows
\* and utilization records the transformer produces from the raw station
\* equal those it produces from the station as the extractor normalised it.
C26_RoundTripResilience ==
    [][(mode = "roundtrip" /\ pc = "normalized" /\ pc' = "both")
          => /\ dfs'.stations_df = dfs.stations_df
             /\ dfs'.utilization_df = dfs.utilization_df]_vars

\* -------------------------------------------------------- scheduler claims

\* The loop of continuous.py between two iterations or after its end, and
\* the iterations that ran to their end (an iteration that an exception
\* left did not).
BetweenIterations == mode = "continuous" /\ pc \in {"loop", "done"}
LeftByException == cycle.outcome = "exception"
CompletedIterations == IF LeftByException THEN cycle.n - 1 ELSE cycle.n

C30_FixedCadence ==
    [][(Looping /\ pc = "loop" /\ pc' = "extract" /\ cycle.n >= 1)
          => cycle'.start >= cycle.start + IntervalTicks]_vars

====
